---- MODULE Spec2Model ----
(***************************************************************************)
(* Model of hypervisor/boot/multiboot2.c: the conversion of a multiboot2   *)
(* information block (a stream of tags) into struct acrn_multiboot_info.   *)
(*                                                                         *)
(* The block is modelled as the walker sees it: the sequence of tags found *)
(* at the offsets the declared sizes lead to.  A tag is the view of the    *)
(* memory at its address through every multiboot2_tag_* structure the      *)
(* handlers cast it to, so a handler reads the fields the C code reads,    *)
(* whether or not they lie inside the declared size.                       *)
(*                                                                         *)
(* uint32_t values whose wrap-around matters (the tag size) are kept as    *)
(* two 16-bit halves [hi, lo]; 64-bit pointers are kept as two 32-bit      *)
(* halves [hi, lo].                                                        *)
(***************************************************************************)
EXTENDS Integers, Sequences, FiniteSets, TLC

(* ------------------------------ bounds -------------------------------- *)

\* number of tags laid out in the block
MaxTags == 3

\* capacities of mi_mmap_entry and mi_mods; the headers that set them are not part
\* of the source, the model keeps them small
E820_MAX_ENTRIES == 2
MAX_MODULE_COUNT == 2

(* ---------------- constants of the headers (not in src) ---------------- *)

EINVAL == 22

MULTIBOOT2_INFO_ALIGN == 8

MULTIBOOT2_TAG_TYPE_END == 0
MULTIBOOT2_TAG_TYPE_BOOT_LOADER_NAME == 2
MULTIBOOT2_TAG_TYPE_MODULE == 3
MULTIBOOT2_TAG_TYPE_MMAP == 6
MULTIBOOT2_TAG_TYPE_EFI64 == 12
MULTIBOOT2_TAG_TYPE_ACPI_OLD == 14
MULTIBOOT2_TAG_TYPE_ACPI_NEW == 15
MULTIBOOT2_TAG_TYPE_EFI_MMAP == 17
MULTIBOOT2_TAG_TYPE_LOAD_BASE_ADDR == 21

MULTIBOOT_INFO_HAS_MODS == 8
MULTIBOOT_INFO_HAS_MMAP == 64
MULTIBOOT_INFO_HAS_EFI_MMAP == 65536
MULTIBOOT_INFO_HAS_EFI64 == 131072

\* sizeof(struct multiboot2_mmap_entry): u64 addr, u64 len, u32 type, u32 zero
SizeofMmapEntry == 24

\* (uint32_t)(uint64_t)efiloader_sig: the low half of the address of the signature
EfiLoaderSigAddr == 1162626117

(* -------------------------- 32-bit arithmetic -------------------------- *)

Half == 65536

U32(n) == [hi |-> n \div Half, lo |-> n % Half]

U32IsZero(x) == x.hi = 0 /\ x.lo = 0

\* x + n modulo 2^32, for 0 <= n < 2^16
U32Add(x, n) ==
    LET l == x.lo + n
    IN  [hi |-> (x.hi + l \div Half) % Half, lo |-> l % Half]

\* x - n modulo 2^32, for 0 <= n < 2^16
U32Sub(x, n) ==
    IF x.lo >= n THEN [hi |-> x.hi, lo |-> x.lo - n]
    ELSE [hi |-> (x.hi + Half - 1) % Half, lo |-> x.lo + Half - n]

\* x / d, for 0 < d < 2^15; the quotient fits an integer when d >= 2
U32Div(x, d) ==
    (x.hi \div d) * Half + ((x.hi % d) * Half + x.lo) \div d

\* x & ~(a - 1), for a power of two a <= 2^16
U32AlignDown(x, a) == [hi |-> x.hi, lo |-> x.lo - (x.lo % a)]

\* the value of x as an integer, for x < 2^31
U32Val(x) == x.hi * Half + x.lo

(* ------------------------------ pointers ------------------------------- *)

NullPtr == [hi |-> 0, lo |-> 0]

\* p + n for a 64-bit pointer p whose low half does not carry
PtrAdd(p, n) == [hi |-> p.hi, lo |-> p.lo + n]

\* (uint32_t)(uint64_t)p
PtrLo32(p) == p.lo

\* (uint32_t)((uint64_t)p >> 32U)
PtrHi32(p) == p.hi

(* -------------------------------- tags --------------------------------- *)

\* entries the memory holds behind an mmap tag header, one more than fit the array
MaxTagEntries == E820_MAX_ENTRIES + 1

\* struct multiboot2_mmap_entry number i of the mmap tag variant v
MmapEntry(v, i) == [addr |-> 4096 * v + 256 * i, len |-> 16 * v + i, type |-> 1 + ((v + i) % 3)]

NoEntries == [i \in 1..MaxTagEntries |-> [addr |-> 0, len |-> 0, type |-> 0]]

\* the memory at a tag's address, seen through the multiboot2_tag_* structures
Tag(type, size) ==
    [type |-> type, size |-> U32(size), entries |-> NoEntries,
     mod_start |-> 0, mod_end |-> 0, pointer |-> NullPtr,
     descr_size |-> 0, descr_vers |-> 0, efi_mmap |-> NullPtr]

\* an mmap tag of declared size s followed in memory by the entries of variant v
MmapTag(s, v) ==
    [Tag(MULTIBOOT2_TAG_TYPE_MMAP, s) EXCEPT !.entries = [i \in 1..MaxTagEntries |-> MmapEntry(v, i)]]

ModuleTag(s, v) ==
    [Tag(MULTIBOOT2_TAG_TYPE_MODULE, s) EXCEPT !.mod_start = 1048576 * v, !.mod_end = 1048576 * v + 4096]

Efi64Tag(s, hi) ==
    [Tag(MULTIBOOT2_TAG_TYPE_EFI64, s) EXCEPT !.pointer = [hi |-> hi, lo |-> 28672 + hi]]

EfiMmapTag(s, hi) ==
    [Tag(MULTIBOOT2_TAG_TYPE_EFI_MMAP, s) EXCEPT
        !.descr_size = 48 + hi, !.descr_vers = 1 + hi, !.efi_mmap = [hi |-> hi, lo |-> 36864 + hi]]

\* mmap tags carrying one entry less than, as many as and one more than the array
\* holds, and one whose declared size is less than its own header
MmapTags ==
    {MmapTag(16 + SizeofMmapEntry * k, k) : k \in (E820_MAX_ENTRIES - 1)..MaxTagEntries}
        \cup {MmapTag(12, MaxTagEntries + 1)}

\* a tag whose declared size is so large that size + 7 does not fit 32 bits
WrapSizeTag(type) ==
    [Tag(type, 0) EXCEPT !.size = [hi |-> Half - 1, lo |-> Half - 4]]

TagSet ==
    {Tag(MULTIBOOT2_TAG_TYPE_END, 8)}
        \cup MmapTags
        \cup {ModuleTag(24, 1)}
        \cup {Tag(MULTIBOOT2_TAG_TYPE_BOOT_LOADER_NAME, 13)}
        \cup {Tag(MULTIBOOT2_TAG_TYPE_ACPI_NEW, 28)}
        \cup {Efi64Tag(16, hi) : hi \in 0..1}
        \cup {EfiMmapTag(64, hi) : hi \in 0..1}
        \cup {Tag(MULTIBOOT2_TAG_TYPE_ACPI_OLD, 28)}
        \cup {Tag(MULTIBOOT2_TAG_TYPE_LOAD_BASE_ADDR, 12)}
        \cup {Tag(MULTIBOOT2_TAG_TYPE_LOAD_BASE_ADDR + 1, 8)}
        \cup {ModuleTag(0, 2)}
        \cup {WrapSizeTag(MULTIBOOT2_TAG_TYPE_BOOT_LOADER_NAME)}

\* bytes from a tag to the next one: (size + (ALIGN - 1)) & ~(ALIGN - 1) in 32 bits
Advance(tag) ==
    U32Val(U32AlignDown(U32Add(tag.size, MULTIBOOT2_INFO_ALIGN - 1), MULTIBOOT2_INFO_ALIGN))

RECURSIVE TagOffset(_, _)
\* offset in the block of the k-th tag of the layout s (k = Len(s) + 1: the end of the layout)
TagOffset(s, k) == IF k = 1 THEN 8 ELSE TagOffset(s, k - 1) + Advance(s[k - 1])

(* ------------------------------- state --------------------------------- *)

VARIABLES
    mb2_info,     \* address of the block (64-bit pointer)
    stream,       \* the tags the block holds, in layout order
    layout,       \* the offset of each of these tags from mb2_info
    total_size,   \* mb2_info_size: the first 4 bytes of the block
    mbi,          \* struct acrn_multiboot_info
    mb2_tag,      \* the cursor, as an offset from mb2_info
    mod_idx,      \* the walker's module index
    ret,          \* the return code
    pc,           \* "walk": in the loop; "done": returned
    visited       \* layout indices of the tags the loop body ran on, in order
                  \* (a tag the loop body runs on again at once is listed once)

vars == <<mb2_info, stream, layout, total_size, mbi, mb2_tag, mod_idx, ret, pc, visited>>

ZeroEntry == [baseaddr |-> 0, length |-> 0, type |-> 0]

ZeroMod == [mm_mod_start |-> 0, mm_mod_end |-> 0, mm_string |-> 0]

ZeroEfiInfo ==
    [efi_systab |-> 0, efi_loader_signature |-> 0, efi_memdesc_size |-> 0,
     efi_memdesc_version |-> 0, efi_memmap |-> 0, efi_memmap_size |-> U32(0),
     efi_memmap_hi |-> 0]

\* the zeroed structure the caller passes
ZeroMbi ==
    [mi_flags |-> {},
     mi_mmap_entries |-> 0,
     mi_mmap_entry |-> [i \in 0..(E820_MAX_ENTRIES - 1) |-> ZeroEntry],
     mi_mods_count |-> 0,
     mi_mods |-> [i \in 0..(MAX_MODULE_COUNT - 1) |-> ZeroMod],
     mi_loader_name |-> NullPtr,
     mi_acpi_rsdp |-> NullPtr,
     mi_efi_info |-> ZeroEfiInfo]

\* addresses the block is loaded at: below and above 4GiB
BlockAddrs == {[hi |-> 0, lo |-> 65536], [hi |-> 1, lo |-> 65536]}

(* ------------------------------ handlers ------------------------------- *)

\* mi_mmap_entries as mb2_mmap_to_mbi computes it from the tag size
MmapEntryCount(tag) ==
    LET n == U32Div(U32Sub(tag.size, 16), SizeofMmapEntry)
    IN  IF n > E820_MAX_ENTRIES THEN E820_MAX_ENTRIES ELSE n

\* mb2_mmap_to_mbi that never lowers the count an earlier mmap tag stored
C15_Mutant_mmap(m, tag) ==
    LET n == MmapEntryCount(tag)
    IN  [m EXCEPT
            !.mi_mmap_entries = IF n > @ THEN n ELSE @,
            !.mi_mmap_entry =
                [i \in (DOMAIN m.mi_mmap_entry) \cup (0..(n - 1)) |->
                    IF i < n
                    THEN [baseaddr |-> tag.entries[i + 1].addr,
                          length |-> tag.entries[i + 1].len,
                          type |-> tag.entries[i + 1].type]
                    ELSE m.mi_mmap_entry[i]],
            !.mi_flags = @ \cup {MULTIBOOT_INFO_HAS_MMAP}]

\* mb2_mmap_to_mbi with a copy loop that stops one entry early
C8_Mutant_mmap(m, tag) ==
    LET n == MmapEntryCount(tag)
    IN  [m EXCEPT
            !.mi_mmap_entries = n,
            !.mi_mmap_entry =
                [i \in (DOMAIN m.mi_mmap_entry) \cup (0..(n - 2)) |->
                    IF i < n - 1
                    THEN [baseaddr |-> tag.entries[i + 1].addr,
                          length |-> tag.entries[i + 1].len,
                          type |-> tag.entries[i + 1].type]
                    ELSE m.mi_mmap_entry[i]],
            !.mi_flags = @ \cup {MULTIBOOT_INFO_HAS_MMAP}]

mb2_mmap_to_mbi(m, tag) ==
    LET n == MmapEntryCount(tag)
    IN  [m EXCEPT
            !.mi_mmap_entries = n,
            !.mi_mmap_entry =
                [i \in (DOMAIN m.mi_mmap_entry) \cup (0..(n - 1)) |->
                    IF i < n
                    THEN [baseaddr |-> tag.entries[i + 1].addr,
                          length |-> tag.entries[i + 1].len,
                          type |-> tag.entries[i + 1].type]
                    ELSE m.mi_mmap_entry[i]],
            !.mi_flags = @ \cup {MULTIBOOT_INFO_HAS_MMAP}]

\* mb2_mods_to_mbi with mod_start and mod_end exchanged
C12_Mutant_mods(m, mbi_mod_idx, tag, tagAddr) ==
    LET stored ==
            IF mbi_mod_idx >= MAX_MODULE_COUNT THEN m
            ELSE [m EXCEPT
                    !.mi_mods =
                        [i \in (DOMAIN m.mi_mods) \cup {mbi_mod_idx} |->
                            IF i = mbi_mod_idx
                            THEN [mm_mod_start |-> tag.mod_end,
                                  mm_mod_end |-> tag.mod_start,
                                  mm_string |-> PtrLo32(PtrAdd(tagAddr, 16))]
                            ELSE m.mi_mods[i]],
                    !.mi_mods_count = mbi_mod_idx + 1]
    IN  [stored EXCEPT !.mi_flags = @ \cup {MULTIBOOT_INFO_HAS_MODS}]

\* mb2_mods_to_mbi storing the index, not the index + 1, as the count
C9_Mutant_mods(m, mbi_mod_idx, tag, tagAddr) ==
    LET stored ==
            IF mbi_mod_idx >= MAX_MODULE_COUNT THEN m
            ELSE [m EXCEPT
                    !.mi_mods =
                        [i \in (DOMAIN m.mi_mods) \cup {mbi_mod_idx} |->
                            IF i = mbi_mod_idx
                            THEN [mm_mod_start |-> tag.mod_start,
                                  mm_mod_end |-> tag.mod_end,
                                  mm_string |-> PtrLo32(PtrAdd(tagAddr, 16))]
                            ELSE m.mi_mods[i]],
                    !.mi_mods_count = mbi_mod_idx]
    IN  [stored EXCEPT !.mi_flags = @ \cup {MULTIBOOT_INFO_HAS_MODS}]

\* mb2_mods_to_mbi with the capacity test off by one
C2_Mutant_mods(m, mbi_mod_idx, tag, tagAddr) ==
    LET stored ==
            IF mbi_mod_idx > MAX_MODULE_COUNT THEN m
            ELSE [m EXCEPT
                    !.mi_mods =
                        [i \in (DOMAIN m.mi_mods) \cup {mbi_mod_idx} |->
                            IF i = mbi_mod_idx
                            THEN [mm_mod_start |-> tag.mod_start,
                                  mm_mod_end |-> tag.mod_end,
                                  mm_string |-> PtrLo32(PtrAdd(tagAddr, 16))]
                            ELSE m.mi_mods[i]],
                    !.mi_mods_count = mbi_mod_idx + 1]
    IN  [stored EXCEPT !.mi_flags = @ \cup {MULTIBOOT_INFO_HAS_MODS}]

\* tagAddr: the address of the tag; cmdline is the array at its offset 16
mb2_mods_to_mbi(m, mbi_mod_idx, tag, tagAddr) ==
    LET stored ==
            IF mbi_mod_idx >= MAX_MODULE_COUNT THEN m
            ELSE [m EXCEPT
                    !.mi_mods =
                        [i \in (DOMAIN m.mi_mods) \cup {mbi_mod_idx} |->
                            IF i = mbi_mod_idx
                            THEN [mm_mod_start |-> tag.mod_start,
                                  mm_mod_end |-> tag.mod_end,
                                  mm_string |-> PtrLo32(PtrAdd(tagAddr, 16))]
                            ELSE m.mi_mods[i]],
                    !.mi_mods_count = mbi_mod_idx + 1]
    IN  [stored EXCEPT !.mi_flags = @ \cup {MULTIBOOT_INFO_HAS_MODS}]

\* mb2_efi64_to_mbi with the range check of mb2_efimmap_to_mbi on the flag
C16_Mutant_efi64(m, tag) ==
    LET written ==
            [m EXCEPT
                !.mi_efi_info.efi_systab = PtrLo32(tag.pointer),
                !.mi_efi_info.efi_loader_signature = EfiLoaderSigAddr]
    IN  IF PtrHi32(tag.pointer) # 0 THEN written
        ELSE [written EXCEPT !.mi_flags = @ \cup {MULTIBOOT_INFO_HAS_EFI64}]

mb2_efi64_to_mbi(m, tag) ==
    [m EXCEPT
        !.mi_efi_info.efi_systab = PtrLo32(tag.pointer),
        !.mi_efi_info.efi_loader_signature = EfiLoaderSigAddr,
        !.mi_flags = @ \cup {MULTIBOOT_INFO_HAS_EFI64}]

\* mb2_efimmap_to_mbi storing the tag size, header included, as the map size
C10_Mutant_EfiMmapMbi(m, tag) ==
    LET written ==
            [m EXCEPT
                !.mi_efi_info.efi_memdesc_size = tag.descr_size,
                !.mi_efi_info.efi_memdesc_version = tag.descr_vers,
                !.mi_efi_info.efi_memmap = PtrLo32(tag.efi_mmap),
                !.mi_efi_info.efi_memmap_size = tag.size,
                !.mi_efi_info.efi_memmap_hi = PtrHi32(tag.efi_mmap)]
    IN  IF written.mi_efi_info.efi_memmap_hi # 0 THEN written
        ELSE [written EXCEPT !.mi_flags = @ \cup {MULTIBOOT_INFO_HAS_EFI64}]

\* mb2_efimmap_to_mbi setting the flag of its own name, HAS_EFI_MMAP
C3_Mutant_EfiMmapMbi(m, tag) ==
    LET written ==
            [m EXCEPT
                !.mi_efi_info.efi_memdesc_size = tag.descr_size,
                !.mi_efi_info.efi_memdesc_version = tag.descr_vers,
                !.mi_efi_info.efi_memmap = PtrLo32(tag.efi_mmap),
                !.mi_efi_info.efi_memmap_size = U32Sub(tag.size, 16),
                !.mi_efi_info.efi_memmap_hi = PtrHi32(tag.efi_mmap)]
    IN  IF written.mi_efi_info.efi_memmap_hi # 0 THEN written
        ELSE [written EXCEPT !.mi_flags = @ \cup {MULTIBOOT_INFO_HAS_EFI_MMAP}]

\* mb2_efimmap_to_mbi setting the flag before the pointer is checked
C5_Mutant_EfiMmapMbi(m, tag) ==
    [m EXCEPT
        !.mi_efi_info.efi_memdesc_size = tag.descr_size,
        !.mi_efi_info.efi_memdesc_version = tag.descr_vers,
        !.mi_efi_info.efi_memmap = PtrLo32(tag.efi_mmap),
        !.mi_efi_info.efi_memmap_size = U32Sub(tag.size, 16),
        !.mi_efi_info.efi_memmap_hi = PtrHi32(tag.efi_mmap),
        !.mi_flags = @ \cup {MULTIBOOT_INFO_HAS_EFI64}]

\* the structure after mb2_efimmap_to_mbi
EfiMmapMbi(m, tag) ==
    LET written ==
            [m EXCEPT
                !.mi_efi_info.efi_memdesc_size = tag.descr_size,
                !.mi_efi_info.efi_memdesc_version = tag.descr_vers,
                !.mi_efi_info.efi_memmap = PtrLo32(tag.efi_mmap),
                !.mi_efi_info.efi_memmap_size = U32Sub(tag.size, 16),
                !.mi_efi_info.efi_memmap_hi = PtrHi32(tag.efi_mmap)]
    IN  IF written.mi_efi_info.efi_memmap_hi # 0 THEN written
        ELSE [written EXCEPT !.mi_flags = @ \cup {MULTIBOOT_INFO_HAS_EFI64}]

\* the value mb2_efimmap_to_mbi returns
EfiMmapRet(tag) == IF PtrHi32(tag.efi_mmap) # 0 THEN -EINVAL ELSE 0

\* the default case with < in place of <=: LOAD_BASE_ADDR itself is an error
C11_Mutant_DefaultRet(tag) == IF tag.type < MULTIBOOT2_TAG_TYPE_LOAD_BASE_ADDR THEN 0 ELSE -EINVAL

\* the default case without the error for types above LOAD_BASE_ADDR
C1_Mutant_DefaultRet(tag) == 0

\* the default case of the switch: the return code for a type without a handler
DefaultRet(tag) == IF tag.type <= MULTIBOOT2_TAG_TYPE_LOAD_BASE_ADDR THEN 0 ELSE -EINVAL

(* ------------------------------ the walker ----------------------------- *)

\* sizes of a block laid out as s: the header alone, all tags but the last, all tags
\* (a tag takes at least the 8 bytes of its header)
BlockSizes(s) ==
    LET last == Len(s)
        room == IF Advance(s[last]) > 8 THEN Advance(s[last]) ELSE 8
    IN  {8, TagOffset(s, last), TagOffset(s, last) + room}

Init ==
    /\ mb2_info \in BlockAddrs
    /\ stream \in [1..MaxTags -> TagSet]
    /\ layout = [k \in 1..MaxTags |-> TagOffset(stream, k)]
    /\ total_size \in BlockSizes(stream)
    /\ mbi = ZeroMbi
    /\ mb2_tag = 8
    /\ mod_idx = 0
    /\ ret = 0
    /\ pc = "walk"
    /\ visited = <<>>

\* the cursor points at a tag of the layout
InLayout(off) == \E k \in 1..Len(stream) : layout[k] = off

\* layout index of the tag at offset off
IndexAt(off) ==
    CHOOSE k \in 1..Len(stream) :
        /\ layout[k] = off
        /\ \A j \in 1..(k - 1) : layout[j] # off

\* *mb2_tag
CurTag == stream[IndexAt(mb2_tag)]

\* (uint8_t *)mb2_info + mb2_tag
CurAddr == PtrAdd(mb2_info, mb2_tag)

\* the condition of the while loop with <= in place of <
C14_Mutant_LoopCond ==
    /\ InLayout(mb2_tag)
    /\ CurTag.type # MULTIBOOT2_TAG_TYPE_END
    /\ mb2_tag <= total_size

\* the condition of the while loop; the cursor leaves the layout only at the end of the block
LoopCond ==
    /\ InLayout(mb2_tag)
    /\ CurTag.type # MULTIBOOT2_TAG_TYPE_END
    /\ mb2_tag < total_size

\* the offsets at which the next evaluation of the loop condition reads a tag
\* header: mb2_tag->type is read first, whatever the cursor and the end of the block
HeaderReads == IF pc = "walk" THEN {mb2_tag} ELSE {}

\* visited after the loop body ran on the tag under the cursor
Visit ==
    IF visited # <<>> /\ visited[Len(visited)] = IndexAt(mb2_tag)
    THEN visited
    ELSE Append(visited, IndexAt(mb2_tag))

\* the loop body is entered with a tag of non-zero size and type t
Dispatch(t) ==
    /\ pc = "walk"
    /\ LoopCond
    /\ ~U32IsZero(CurTag.size)
    /\ CurTag.type = t
    /\ visited' = Visit

\* the end of the loop body without the break on an error
C13_Mutant_EndOfBody(r) ==
    /\ ret' = r
    /\ pc' = pc
    /\ mb2_tag' = mb2_tag + Advance(CurTag)
    /\ UNCHANGED <<mb2_info, stream, layout, total_size>>

\* the end of the loop body: break on an error, else move to the next tag
EndOfBody(r) ==
    /\ ret' = r
    /\ IF r # 0
       THEN pc' = "done" /\ mb2_tag' = mb2_tag
       ELSE pc' = pc /\ mb2_tag' = mb2_tag + Advance(CurTag)
    /\ UNCHANGED <<mb2_info, stream, layout, total_size>>

\* the loop ends on an END tag or at the end of the block; the function returns ret
Return ==
    /\ pc = "walk"
    /\ ~LoopCond
    /\ pc' = "done"
    /\ UNCHANGED <<mb2_info, stream, layout, total_size, mbi, mb2_tag, mod_idx, ret, visited>>

\* the size test placed after the switch: the module handler runs first
C4_Mutant_ZeroSize ==
    /\ pc = "walk"
    /\ LoopCond
    /\ U32IsZero(CurTag.size)
    /\ visited' = Visit
    /\ mbi' = IF CurTag.type = MULTIBOOT2_TAG_TYPE_MODULE
              THEN mb2_mods_to_mbi(mbi, mod_idx, CurTag, CurAddr)
              ELSE mbi
    /\ ret' = -EINVAL
    /\ pc' = "done"
    /\ UNCHANGED <<mb2_info, stream, layout, total_size, mb2_tag, mod_idx>>

ZeroSize ==
    /\ pc = "walk"
    /\ LoopCond
    /\ U32IsZero(CurTag.size)
    /\ visited' = Visit
    /\ ret' = -EINVAL
    /\ pc' = "done"
    /\ UNCHANGED <<mb2_info, stream, layout, total_size, mbi, mb2_tag, mod_idx>>

Mmap ==
    /\ Dispatch(MULTIBOOT2_TAG_TYPE_MMAP)
    /\ mbi' = mb2_mmap_to_mbi(mbi, CurTag)
    /\ mod_idx' = mod_idx
    /\ EndOfBody(ret)

Module ==
    /\ Dispatch(MULTIBOOT2_TAG_TYPE_MODULE)
    /\ mbi' = mb2_mods_to_mbi(mbi, mod_idx, CurTag, CurAddr)
    /\ mod_idx' = mod_idx + 1
    /\ EndOfBody(ret)

BootLoaderName ==
    /\ Dispatch(MULTIBOOT2_TAG_TYPE_BOOT_LOADER_NAME)
    /\ mbi' = [mbi EXCEPT !.mi_loader_name = PtrAdd(CurAddr, 8)]
    /\ mod_idx' = mod_idx
    /\ EndOfBody(ret)

AcpiNew ==
    /\ Dispatch(MULTIBOOT2_TAG_TYPE_ACPI_NEW)
    /\ mbi' = [mbi EXCEPT !.mi_acpi_rsdp = PtrAdd(CurAddr, 8)]
    /\ mod_idx' = mod_idx
    /\ EndOfBody(ret)

Efi64 ==
    /\ Dispatch(MULTIBOOT2_TAG_TYPE_EFI64)
    /\ mbi' = mb2_efi64_to_mbi(mbi, CurTag)
    /\ mod_idx' = mod_idx
    /\ EndOfBody(ret)

EfiMmap ==
    /\ Dispatch(MULTIBOOT2_TAG_TYPE_EFI_MMAP)
    /\ mbi' = EfiMmapMbi(mbi, CurTag)
    /\ mod_idx' = mod_idx
    /\ EndOfBody(EfiMmapRet(CurTag))

HandledTypes ==
    {MULTIBOOT2_TAG_TYPE_MMAP, MULTIBOOT2_TAG_TYPE_MODULE, MULTIBOOT2_TAG_TYPE_BOOT_LOADER_NAME,
     MULTIBOOT2_TAG_TYPE_ACPI_NEW, MULTIBOOT2_TAG_TYPE_EFI64, MULTIBOOT2_TAG_TYPE_EFI_MMAP}

Default ==
    /\ \E t \in {tg.type : tg \in TagSet} \ HandledTypes : Dispatch(t)
    /\ mbi' = mbi
    /\ mod_idx' = mod_idx
    /\ EndOfBody(DefaultRet(CurTag))

Next ==
    \/ Return
    \/ ZeroSize
    \/ Mmap
    \/ Module
    \/ BootLoaderName
    \/ AcpiNew
    \/ Efi64
    \/ EfiMmap
    \/ Default

Spec == Init /\ [][Next]_vars

\* the walk as it runs: the loop goes on while an iteration can change the state
FairSpec == Spec /\ WF_vars(Next)

(* ------------------------------ properties ----------------------------- *)

\* the tag the loop body ran on last
LastVisited == stream[visited[Len(visited)]]

\* the loop body is about to run on a tag of non-zero size and type t
AtTag(t) ==
    /\ pc = "walk"
    /\ LoopCond
    /\ ~U32IsZero(CurTag.size)
    /\ CurTag.type = t

\* the k-th tag of the layout lies before the first END tag and starts inside the block
BeforeEnd(k) ==
    /\ TagOffset(stream, k) < total_size
    /\ \A j \in 1..k : stream[j].type # MULTIBOOT2_TAG_TYPE_END

\* a tag of one of the three kinds the specification calls a FormatError
FatalTag(tag) ==
    \/ U32IsZero(tag.size)
    \/ tag.type > MULTIBOOT2_TAG_TYPE_LOAD_BASE_ADDR
    \/ /\ tag.type = MULTIBOOT2_TAG_TYPE_EFI_MMAP
       /\ tag.efi_mmap.hi # 0

\* C1: the function returns a negative code exactly when a tag before the END tag
\* and before the end of the block has size 0, a type above LOAD_BASE_ADDR, or is an
\* EFI-mmap tag with a pointer at or above 4GiB; otherwise it returns 0, also when
\* no EFI tag was seen.
C1_NegativeIffFatalTag ==
    pc = "done" =>
        /\ (ret < 0) <=> (\E k \in 1..MaxTags : BeforeEnd(k) /\ FatalTag(stream[k]))
        /\ (ret >= 0) => (ret = 0)

\* a walk of two harmless tags that ends on a tag of unknown type, without EFI data
C1_Witness ==
    /\ pc = "done"
    /\ ret < 0
    /\ Len(visited) = 3
    /\ LastVisited.type > MULTIBOOT2_TAG_TYPE_LOAD_BASE_ADDR
    /\ ~U32IsZero(LastVisited.size)
    /\ MULTIBOOT_INFO_HAS_EFI64 \notin mbi.mi_flags

\* C2: the stored mmap entry count and module count never exceed the capacities of
\* their arrays, and no array slot at or beyond the capacity is written.
C2_CountsWithinCapacity ==
    /\ mbi.mi_mmap_entries <= E820_MAX_ENTRIES
    /\ mbi.mi_mods_count <= MAX_MODULE_COUNT
    /\ DOMAIN mbi.mi_mmap_entry \subseteq 0..(E820_MAX_ENTRIES - 1)
    /\ DOMAIN mbi.mi_mods \subseteq 0..(MAX_MODULE_COUNT - 1)

\* more module tags than the array holds have been processed
C2_Witness ==
    /\ mod_idx > MAX_MODULE_COUNT
    /\ mbi.mi_mods_count = MAX_MODULE_COUNT

\* a tag of a type with a handler that no handler and no check rejects
ValidKnownTag(tag) ==
    /\ tag.type \in HandledTypes
    /\ ~U32IsZero(tag.size)
    /\ tag.type = MULTIBOOT2_TAG_TYPE_EFI_MMAP => tag.efi_mmap.hi = 0

\* the block holds e - 1 valid tags of known types and then, inside the block, an END tag
WellFormedUpTo(e) ==
    /\ stream[e].type = MULTIBOOT2_TAG_TYPE_END
    /\ \A j \in 1..(e - 1) : ValidKnownTag(stream[j])
    /\ TagOffset(stream, e + 1) <= total_size

\* the flags the specification promises for the tags before the e-th
ExpectedFlags(e) ==
    LET types == {stream[j].type : j \in 1..(e - 1)}
    IN  (IF MULTIBOOT2_TAG_TYPE_MMAP \in types THEN {MULTIBOOT_INFO_HAS_MMAP} ELSE {})
            \cup (IF MULTIBOOT2_TAG_TYPE_MODULE \in types THEN {MULTIBOOT_INFO_HAS_MODS} ELSE {})
            \cup (IF types \cap {MULTIBOOT2_TAG_TYPE_EFI64, MULTIBOOT2_TAG_TYPE_EFI_MMAP} # {}
                  THEN {MULTIBOOT_INFO_HAS_EFI64} ELSE {})

\* C3: for a block of valid tags of known types ended by END the function returns 0
\* with HAS_MMAP set exactly when there is an mmap tag, HAS_MODS exactly when there
\* is a module tag, the shared EFI flag exactly when there is an EFI64 or EFI-mmap
\* tag, and no other flag.
C3_WellFormedFlags ==
    \A e \in 1..MaxTags :
        (pc = "done" /\ WellFormedUpTo(e)) =>
            /\ ret = 0
            /\ mbi.mi_flags = ExpectedFlags(e)

\* an mmap tag, a valid EFI-mmap tag and END have been walked
C3_Witness ==
    /\ pc = "done"
    /\ WellFormedUpTo(3)
    /\ stream[1].type = MULTIBOOT2_TAG_TYPE_MMAP
    /\ stream[2].type = MULTIBOOT2_TAG_TYPE_EFI_MMAP
    /\ mbi.mi_flags = {MULTIBOOT_INFO_HAS_MMAP, MULTIBOOT_INFO_HAS_EFI64}

\* the loop body is about to run on a tag of size 0
AtZeroSizeTag ==
    /\ pc = "walk"
    /\ LoopCond
    /\ U32IsZero(CurTag.size)

\* C4: a tag of size 0 ends the walk with a negative code and leaves the output as
\* the tags before it left it.
C4_ZeroSizeKeepsOutput ==
    [][AtZeroSizeTag => (pc' = "done" /\ ret' < 0 /\ mbi' = mbi)]_vars

\* the walk was ended by a tag of size 0 after two tags had filled in the output
C4_Witness ==
    /\ pc = "done"
    /\ ret < 0
    /\ Len(visited) = 3
    /\ U32IsZero(LastVisited.size)
    /\ mbi.mi_flags # {}
    /\ mbi.mi_mods_count = 1

\* the loop body is about to run on an EFI-mmap tag whose pointer has a bit >= 32 set
AtHighEfiMmapTag ==
    /\ AtTag(MULTIBOOT2_TAG_TYPE_EFI_MMAP)
    /\ CurTag.efi_mmap.hi # 0

\* C5: an EFI-mmap tag whose pointer has a bit >= 32 set ends the walk with a
\* negative code and does not set the shared EFI flag.
C5_HighEfiMmapFails ==
    [][AtHighEfiMmapTag =>
        /\ pc' = "done"
        /\ ret' < 0
        /\ (MULTIBOOT_INFO_HAS_EFI64 \notin mbi.mi_flags
                => MULTIBOOT_INFO_HAS_EFI64 \notin mbi'.mi_flags)]_vars

\* the walk was ended by such a tag and the shared EFI flag is unset
C5_Witness ==
    /\ pc = "done"
    /\ ret < 0
    /\ visited # <<>>
    /\ LastVisited.type = MULTIBOOT2_TAG_TYPE_EFI_MMAP
    /\ ~U32IsZero(LastVisited.size)
    /\ LastVisited.efi_mmap.hi # 0
    /\ MULTIBOOT_INFO_HAS_EFI64 \notin mbi.mi_flags

\* the five fields of mi_efi_info that mb2_efimmap_to_mbi assigns
EfiMmapFields(m) ==
    <<m.mi_efi_info.efi_memdesc_size, m.mi_efi_info.efi_memdesc_version,
      m.mi_efi_info.efi_memmap, m.mi_efi_info.efi_memmap_size,
      m.mi_efi_info.efi_memmap_hi>>

\* C6: an EFI-mmap tag that fails validation commits nothing: memdesc_size,
\* memdesc_version, memmap, memmap_size and memmap_hi are after the tag what they
\* were before it, so that memmap_hi is 0 after every walk.
C6_FailedEfiMmapCommitsNothing ==
    [][AtHighEfiMmapTag =>
        /\ EfiMmapFields(mbi') = EfiMmapFields(mbi)
        /\ mbi'.mi_efi_info.efi_memmap_hi = 0]_vars

\* C7: at every tag boundary and on return the shared EFI flag is set only if
\* efi_info.memmap_hi is 0, and HAS_MODS only if at least one module is stored.
C7_FlagsImplyValidData ==
    /\ MULTIBOOT_INFO_HAS_EFI64 \in mbi.mi_flags => mbi.mi_efi_info.efi_memmap_hi = 0
    /\ MULTIBOOT_INFO_HAS_MODS \in mbi.mi_flags => mbi.mi_mods_count >= 1

\* the number of entries an mmap tag of declared size >= 16 carries
CarriedEntries(tag) == (U32Val(tag.size) - 16) \div SizeofMmapEntry

\* the loop body is about to run on an mmap tag whose size covers at least its header
AtMmapTag ==
    /\ AtTag(MULTIBOOT2_TAG_TYPE_MMAP)
    /\ U32Val(CurTag.size) >= 16

\* the entry the mmap handler stores for the entry e of a tag
StoredEntry(e) == [baseaddr |-> e.addr, length |-> e.len, type |-> e.type]

\* C8: an mmap tag carrying N entries stores the first min(N, E820_MAX_ENTRIES) of
\* them in order (base, length and type of each), sets that count and HAS_MMAP, and
\* does not fail the walk.
C8_MmapStoresClampedPrefix ==
    [][AtMmapTag =>
        LET N == CarriedEntries(CurTag)
            kept == IF N > E820_MAX_ENTRIES THEN E820_MAX_ENTRIES ELSE N
        IN  /\ mbi'.mi_mmap_entries = kept
            /\ \A i \in 0..(kept - 1) :
                    mbi'.mi_mmap_entry[i] = StoredEntry(CurTag.entries[i + 1])
            /\ MULTIBOOT_INFO_HAS_MMAP \in mbi'.mi_flags
            /\ ret' = 0
            /\ pc' = "walk"]_vars

\* an mmap tag with more entries than the array holds has been stored
C8_Witness ==
    /\ pc = "walk"
    /\ visited # <<>>
    /\ LastVisited.type = MULTIBOOT2_TAG_TYPE_MMAP
    /\ U32Val(LastVisited.size) >= 16
    /\ CarriedEntries(LastVisited) > E820_MAX_ENTRIES
    /\ mbi.mi_mmap_entries = E820_MAX_ENTRIES
    /\ mbi.mi_mmap_entry[E820_MAX_ENTRIES - 1] = StoredEntry(LastVisited.entries[E820_MAX_ENTRIES])

\* the number of module tags the loop body has dispatched to the module handler
ModulesSeen ==
    Cardinality({i \in 1..Len(visited) :
        /\ stream[visited[i]].type = MULTIBOOT2_TAG_TYPE_MODULE
        /\ ~U32IsZero(stream[visited[i]].size)})

\* C9: each module tag advances the module index by one; with an index below
\* MAX_MODULE_COUNT the module is stored in the slot of that index and the count
\* becomes index + 1, otherwise slots and count stay; HAS_MODS is set either way;
\* the count is always the smaller of the number of module tags seen and
\* MAX_MODULE_COUNT.
C9_ModuleIndexAndCount ==
    /\ [](mbi.mi_mods_count =
            IF ModulesSeen > MAX_MODULE_COUNT THEN MAX_MODULE_COUNT ELSE ModulesSeen)
    /\ [][AtTag(MULTIBOOT2_TAG_TYPE_MODULE) =>
            /\ mod_idx' = mod_idx + 1
            /\ MULTIBOOT_INFO_HAS_MODS \in mbi'.mi_flags
            /\ IF mod_idx < MAX_MODULE_COUNT
               THEN /\ mbi'.mi_mods[mod_idx] =
                            [mm_mod_start |-> CurTag.mod_start,
                             mm_mod_end |-> CurTag.mod_end,
                             mm_string |-> (mb2_info.lo + mb2_tag + 16)]
                    /\ \A i \in (DOMAIN mbi.mi_mods) \ {mod_idx} :
                            mbi'.mi_mods[i] = mbi.mi_mods[i]
                    /\ mbi'.mi_mods_count = mod_idx + 1
               ELSE /\ mbi'.mi_mods = mbi.mi_mods
                    /\ mbi'.mi_mods_count = mbi.mi_mods_count]_vars

\* the walk returned after more module tags than the array holds
C9_Witness ==
    /\ pc = "done"
    /\ ModulesSeen > MAX_MODULE_COUNT
    /\ mod_idx = ModulesSeen
    /\ mbi.mi_mods_count = MAX_MODULE_COUNT
    /\ MULTIBOOT_INFO_HAS_MODS \in mbi.mi_flags

\* the loop body is about to run on an EFI-mmap tag whose pointer is below 4GiB
AtLowEfiMmapTag ==
    /\ AtTag(MULTIBOOT2_TAG_TYPE_EFI_MMAP)
    /\ CurTag.efi_mmap.hi = 0
    /\ U32Val(CurTag.size) >= 16

\* C10: an EFI-mmap tag whose pointer is below 4GiB does not fail the walk, sets the
\* flag an EFI64 tag sets, and stores descr_size, descr_vers, the low 32 bits of the
\* pointer, memmap_size = size - 16 and memmap_hi = 0.
C10_LowEfiMmapStored ==
    [][AtLowEfiMmapTag =>
        /\ ret' = 0
        /\ pc' = "walk"
        /\ mbi'.mi_flags = mbi.mi_flags \cup mb2_efi64_to_mbi(ZeroMbi, CurTag).mi_flags
        /\ mb2_efi64_to_mbi(ZeroMbi, CurTag).mi_flags # {}
        /\ EfiMmapFields(mbi') =
                <<CurTag.descr_size, CurTag.descr_vers, CurTag.efi_mmap.lo,
                  U32(U32Val(CurTag.size) - 16), 0>>]_vars

\* such a tag has been stored
C10_Witness ==
    /\ pc = "walk"
    /\ visited # <<>>
    /\ LastVisited.type = MULTIBOOT2_TAG_TYPE_EFI_MMAP
    /\ LastVisited.efi_mmap.hi = 0
    /\ mbi.mi_efi_info.efi_memmap = LastVisited.efi_mmap.lo
    /\ mbi.mi_efi_info.efi_memmap_size = U32(48)
    /\ MULTIBOOT_INFO_HAS_EFI64 \in mbi.mi_flags

\* the loop body is about to run on a tag of non-zero size whose type has no case
AtUnhandledTag ==
    /\ pc = "walk"
    /\ LoopCond
    /\ ~U32IsZero(CurTag.size)
    /\ CurTag.type \notin HandledTypes

\* C11: a tag of non-zero size and of a type above LOAD_BASE_ADDR ends the walk with
\* a negative code; one of a type up to LOAD_BASE_ADDR without a handler (the old
\* ACPI tag among them) changes neither the output nor the return code, and the walk
\* goes on with the next tag.
C11_UnknownAbortsUnhandledSkipped ==
    [][AtUnhandledTag =>
        IF CurTag.type > MULTIBOOT2_TAG_TYPE_LOAD_BASE_ADDR
        THEN /\ ret' < 0
             /\ pc' = "done"
        ELSE /\ mbi' = mbi
             /\ ret' = ret
             /\ pc' = "walk"
             /\ mod_idx' = mod_idx
             /\ mb2_tag' = mb2_tag + Advance(CurTag)
             /\ mb2_tag' > mb2_tag]_vars

\* an old ACPI tag and a LOAD_BASE_ADDR tag have been skipped after a module tag
C11_Witness ==
    /\ pc = "walk"
    /\ Len(visited) = 3
    /\ stream[1].type = MULTIBOOT2_TAG_TYPE_MODULE
    /\ {stream[2].type, stream[3].type} =
            {MULTIBOOT2_TAG_TYPE_ACPI_OLD, MULTIBOOT2_TAG_TYPE_LOAD_BASE_ADDR}
    /\ ret = 0
    /\ mbi.mi_mods_count = 1
    /\ mbi.mi_flags = {MULTIBOOT_INFO_HAS_MODS}

\* the block is one mmap tag with at most E820_MAX_ENTRIES entries, e - 2 module tags,
\* at most MAX_MODULE_COUNT of them, and the END tag, loaded below 4GiB
BuiltFromEntries(e) ==
    /\ e >= 2
    /\ e - 2 <= MAX_MODULE_COUNT
    /\ stream[1].type = MULTIBOOT2_TAG_TYPE_MMAP
    /\ U32Val(stream[1].size) >= 16
    /\ (U32Val(stream[1].size) - 16) % SizeofMmapEntry = 0
    /\ CarriedEntries(stream[1]) <= E820_MAX_ENTRIES
    /\ \A j \in 2..(e - 1) :
            /\ stream[j].type = MULTIBOOT2_TAG_TYPE_MODULE
            /\ U32Val(stream[j].size) = 24
    /\ stream[e].type = MULTIBOOT2_TAG_TYPE_END
    /\ TagOffset(stream, e + 1) <= total_size
    /\ mb2_info.hi = 0

C13_FirstErrorEndsWalk ==
    /\ [](ret # 0 =>
            /\ pc = "done"
            /\ ret = -EINVAL
            /\ visited # <<>>
            /\ FatalTag(LastVisited)
            /\ \A i \in 1..(Len(visited) - 1) : ~FatalTag(stream[visited[i]]))
    /\ [][ret # 0 => (mbi' = mbi /\ ret' = ret /\ visited' = visited)]_vars
    /\ [][(ret = 0 /\ ret' # 0) =>
            (mbi' = IF AtHighEfiMmapTag THEN EfiMmapMbi(mbi, CurTag) ELSE mbi)]_vars

\* the walk was ended by its first tag, of unknown type, with a module tag and a
\* tag of size 0 behind it inside the block
C13_Witness ==
    /\ pc = "done"
    /\ ret = -EINVAL
    /\ visited = <<1>>
    /\ stream[1].type > MULTIBOOT2_TAG_TYPE_LOAD_BASE_ADDR
    /\ stream[2].type = MULTIBOOT2_TAG_TYPE_MODULE
    /\ ~U32IsZero(stream[2].size)
    /\ U32IsZero(stream[3].size)
    /\ total_size > TagOffset(stream, 3)
    /\ mbi = ZeroMbi

\* the declared size of the j-th tag does not reach beyond the block
TagInsideBlock(j) ==
    /\ stream[j].size.hi = 0
    /\ TagOffset(stream, j) + stream[j].size.lo <= total_size

\* no tag of the block is an END tag, all are of handled types, accepted and inside
\* the block, and the block ends where the last tag ends
ValidWithoutEnd ==
    /\ \A j \in 1..MaxTags : ValidKnownTag(stream[j]) /\ TagInsideBlock(j)
    /\ total_size = TagOffset(stream, MaxTags + 1)

\* C14: the loop body runs only on tags before the first END tag that start below
\* total_size, and only such a step changes the output; a block of valid tags
\* without an END tag whose end the cursor reaches returns 0, with the flags of its
\* tags, as a block ended by END does.
C14_StopsAtEndTagAndEndOfBlock ==
    /\ [](\A i \in 1..Len(visited) : BeforeEnd(visited[i]))
    /\ []((pc = "done" /\ ValidWithoutEnd) =>
            /\ ret = 0
            /\ mb2_tag = total_size
            /\ visited = [i \in 1..MaxTags |-> i]
            /\ mbi.mi_flags = ExpectedFlags(MaxTags + 1))
    /\ [][mbi' # mbi => (visited' # visited \/ visited[Len(visited)] = IndexAt(mb2_tag))]_vars
    /\ [][pc = "done" => mbi' = mbi]_vars

\* a block without an END tag has been walked to its end
C14_Witness ==
    /\ pc = "done"
    /\ ValidWithoutEnd
    /\ Len(visited) = MaxTags
    /\ ret = 0
    /\ MULTIBOOT_INFO_HAS_MMAP \in mbi.mi_flags

\* the mmap tag the loop body ran on last, as an index into visited
LastMmapVisit ==
    CHOOSE i \in 1..Len(visited) :
        /\ stream[visited[i]].type = MULTIBOOT2_TAG_TYPE_MMAP
        /\ ~U32IsZero(stream[visited[i]].size)
        /\ \A j \in (i + 1)..Len(visited) :
                ~(/\ stream[visited[j]].type = MULTIBOOT2_TAG_TYPE_MMAP
                  /\ ~U32IsZero(stream[visited[j]].size))

MmapVisits ==
    {i \in 1..Len(visited) :
        /\ stream[visited[i]].type = MULTIBOOT2_TAG_TYPE_MMAP
        /\ ~U32IsZero(stream[visited[i]].size)}

\* C15: after several mmap tags the stored count and the entries below it are those
\* of the last mmap tag processed (clamped to E820_MAX_ENTRIES), none of an earlier one.
C15_LastMmapWins ==
    (MmapVisits # {} /\ U32Val(stream[visited[LastMmapVisit]].size) >= 16) =>
        LET last == stream[visited[LastMmapVisit]]
            N == CarriedEntries(last)
            kept == IF N > E820_MAX_ENTRIES THEN E820_MAX_ENTRIES ELSE N
        IN  /\ mbi.mi_mmap_entries = kept
            /\ \A i \in 0..(kept - 1) :
                    mbi.mi_mmap_entry[i] = StoredEntry(last.entries[i + 1])

\* an mmap tag with fewer entries than the array holds was processed after a full one
C15_Witness ==
    /\ Cardinality(MmapVisits) >= 2
    /\ stream[1].type = MULTIBOOT2_TAG_TYPE_MMAP
    /\ stream[1].size = U32(16 + SizeofMmapEntry * E820_MAX_ENTRIES)
    /\ U32Val(stream[visited[LastMmapVisit]].size) >= 16
    /\ CarriedEntries(stream[visited[LastMmapVisit]]) = E820_MAX_ENTRIES - 1
    /\ mbi.mi_mmap_entries = E820_MAX_ENTRIES - 1

\* C16: an EFI64 tag never fails the walk, whatever its pointer: it stores the
\* pointer modulo 2^32 as efi_systab and the loader signature, and sets the shared
\* EFI flag, also when the high half of the pointer is not 0.
C16_Efi64NeverFails ==
    [][AtTag(MULTIBOOT2_TAG_TYPE_EFI64) =>
        /\ ret' = 0
        /\ pc' = "walk"
        /\ mbi'.mi_efi_info.efi_systab = CurTag.pointer.lo
        /\ mbi'.mi_efi_info.efi_loader_signature = EfiLoaderSigAddr
        /\ MULTIBOOT_INFO_HAS_EFI64 \in mbi'.mi_flags
        /\ mbi' = [mbi EXCEPT
                    !.mi_efi_info.efi_systab = CurTag.pointer.lo,
                    !.mi_efi_info.efi_loader_signature = EfiLoaderSigAddr,
                    !.mi_flags = @ \cup {MULTIBOOT_INFO_HAS_EFI64}]]_vars

\* an EFI64 tag with a pointer above 4GiB has been stored
C16_Witness ==
    /\ pc = "walk"
    /\ ret = 0
    /\ visited # <<>>
    /\ LastVisited.type = MULTIBOOT2_TAG_TYPE_EFI64
    /\ LastVisited.pointer.hi # 0
    /\ mbi.mi_efi_info.efi_systab = LastVisited.pointer.lo
    /\ MULTIBOOT_INFO_HAS_EFI64 \in mbi.mi_flags

\* the uint32 x is at most the integer n, for 0 <= n < 2^31
U32AtMost(x, n) == x.hi < Half \div 2 /\ U32Val(x) <= n

\* C17: after each non-fatal tag at offset o with declared size s the cursor is at
\* o plus s rounded up to the next multiple of 8: a multiple of 8 that is at least
\* s and at least 8 bytes forward, so the cursor strictly increases.
C17_CursorStrictlyIncreases ==
    [][(pc = "walk" /\ pc' = "walk") =>
        LET step == mb2_tag' - mb2_tag
        IN  /\ step % MULTIBOOT2_INFO_ALIGN = 0
            /\ mb2_tag' % MULTIBOOT2_INFO_ALIGN = 0
            /\ U32AtMost(CurTag.size, step)
            /\ ~U32AtMost(CurTag.size, step - MULTIBOOT2_INFO_ALIGN)
            /\ step >= 8
            /\ mb2_tag' > mb2_tag]_vars

\* C18: the walk terminates on every input: the function returns after finitely
\* many iterations, also for a tag whose declared size is 0xFFFFFFF9..0xFFFFFFFF.
C18_WalkTerminates == <>(pc = "done")

\* C19: the walk reads a tag header only at an offset below total_size, also on
\* the step where the cursor reaches the end of a block without END tag and when
\* total_size is 8 or less.
C19_HeaderReadsBelowEnd == \A off \in HeaderReads : off < total_size

\* C20: an mmap tag of declared size s stores the count
\* min(E820_MAX_ENTRIES, floor(max(s - 16, 0) / 24)); with s < 16 it stores the
\* count 0 and copies no entry.
C20_MmapCountFromSize ==
    [][AtTag(MULTIBOOT2_TAG_TYPE_MMAP) =>
        LET s == U32Val(CurTag.size)
            room == IF s > 16 THEN s - 16 ELSE 0
            n == room \div SizeofMmapEntry
            kept == IF n > E820_MAX_ENTRIES THEN E820_MAX_ENTRIES ELSE n
        IN  /\ mbi'.mi_mmap_entries = kept
            /\ s < 16 => mbi'.mi_mmap_entry = mbi.mi_mmap_entry]_vars

====
